---- MODULE Spec2Model ----
(***************************************************************************)
(* Model of bulldozer/signals.go: the Signals configuration, its six       *)
(* signal predicates and the two aggregation functions matchesForOne and   *)
(* matchesForAll.  Strings that are compared by case folding, by substring *)
(* containment or by regular expression are sequences of one-character     *)
(* strings; a formatted reason is the tuple of its format and arguments.   *)
(***************************************************************************)
EXTENDS Integers, Sequences, FiniteSets, TLC

VARIABLES sig, pr, tag, pc, result, calls, evaluated

vars == <<sig, pr, tag, pc, result, calls, evaluated>>

-----------------------------------------------------------------------------
(* Constants of signals.go *)

MATCH_ONE == "one"
MATCH_ALL == "all"
SIGNAL_NOT_FOUND == <<"Signal not found">>
SIGNAL_NOT_MATCH == <<"Signal not match">>

nil == "nil"

-----------------------------------------------------------------------------
(* Library functions used by signals.go *)

\* fmt.Sprintf: the format followed by its arguments
Sprintf(format, args) == <<format>> \o args

\* unicode.SimpleFold restricted to the letters of the model's label names
FoldChar(c) ==
    CASE c = "B" -> "b"
      [] c = "U" -> "u"
      [] c = "G" -> "g"
      [] OTHER -> c

\* mutant: the comparison is case-sensitive
EqualFold_CaseSensitive(s, t) == s = t

\* strings.EqualFold
EqualFold(s, t) ==
    /\ Len(s) = Len(t)
    /\ \A i \in 1..Len(s) : FoldChar(s[i]) = FoldChar(t[i])

\* strings.Contains
Contains(s, substr) ==
    \E i \in 0..(Len(s) - Len(substr)) : SubSeq(s, i + 1, i + Len(substr)) = substr

\* least element of a non-empty set of naturals
Min(S) == CHOOSE x \in S : \A y \in S : x <= y

-----------------------------------------------------------------------------
(* regexp: the syntax of the patterns is literals, ".", "*", "|", "^", "$" *)

\* regexp/syntax parse errors: a repetition operator with no argument
\* (at the start, after "|") or applied to a repetition ("**")
Compiles(re) ==
    \A i \in 1..Len(re) :
        re[i] = "*" => (i > 1 /\ re[i - 1] \notin {"|", "*"})

\* the operands of the top-level alternation
RECURSIVE Alternatives(_)
Alternatives(re) ==
    LET bars == {i \in 1..Len(re) : re[i] = "|"}
    IN  IF bars = {} THEN {re}
        ELSE LET i == Min(bars)
             IN  {SubSeq(re, 1, i - 1)} \cup Alternatives(SubSeq(re, i + 1, Len(re)))

\* positions reached from a position of P by matching the atom a once
StepAtom(a, t, P) ==
    CASE a = "^" -> {q \in P : q = 0}
      [] a = "$" -> {q \in P : q = Len(t)}
      [] a = "." -> {q + 1 : q \in {x \in P : x < Len(t)}}
      [] OTHER   -> {q + 1 : q \in {x \in P : x < Len(t) /\ t[x + 1] = a}}

\* positions reached by matching the atom a zero or more times
RECURSIVE StarAtom(_, _, _)
StarAtom(a, t, P) ==
    LET N == P \cup StepAtom(a, t, P)
    IN  IF N = P THEN P ELSE StarAtom(a, t, N)

\* positions reached by matching the concatenation alt from a position of P
RECURSIVE MatchConcat(_, _, _)
MatchConcat(alt, t, P) ==
    IF alt = <<>> THEN P
    ELSE LET a == Head(alt)
             starred == Len(alt) >= 2 /\ alt[2] = "*"
             rest == IF starred THEN SubSeq(alt, 3, Len(alt)) ELSE Tail(alt)
         IN  MatchConcat(rest, t, IF starred THEN StarAtom(a, t, P) ELSE StepAtom(a, t, P))

\* regexp.MatchString(re, t): an unanchored search; a pattern that does not
\* compile yields (false, error)
MatchString(re, t) ==
    IF ~Compiles(re) THEN [matched |-> FALSE, err |-> "error parsing regexp"]
    ELSE [matched |-> \E alt \in Alternatives(re) : \E i \in 0..Len(t) :
                          MatchConcat(alt, t, {i}) # {},
          err |-> nil]

-----------------------------------------------------------------------------
(* pull.Context accessors *)

Labels(p) == [val |-> IF p.labelsErr = nil THEN p.labels ELSE <<>>, err |-> p.labelsErr]
Comments(p) == [val |-> IF p.commentsErr = nil THEN p.comments ELSE <<>>, err |-> p.commentsErr]
Body(p) == p.body
Branches(p) == p.target
Creator(p) == p.creator

-----------------------------------------------------------------------------
(* Signals *)

\* mutant: the branch patterns are not counted
Enabled_NoPatterns(s) ==
    LET size == Len(s.Label.Values) + Len(s.CommentSubstrings) + Len(s.Comments)
                + Len(s.PRBodySubstrings) + Len(s.Branches) + Len(s.PRCreator)
    IN  size > 0

Enabled(s) ==
    LET size == Len(s.Label.Values) + Len(s.CommentSubstrings) + Len(s.Comments)
                + Len(s.PRBodySubstrings) + Len(s.Branches) + Len(s.BranchPatterns)
                + Len(s.PRCreator)
    IN  size > 0

Ret(match, reason, err) == [match |-> match, reason |-> reason, err |-> err]

\* mutant: the labels that equal a configured value are counted and the count
\* is compared with the number of configured values
LabelAllMatches_Counted(values, labels) ==
    Cardinality({j \in 1..Len(labels) :
                    \E i \in 1..Len(values) : EqualFold(values[i], labels[j])}) = Len(values)

\* mutant: the flag "match" is not reset for each configured value
LabelAllMatches_NoReset(values, labels) ==
    \E j \in 1..Len(labels) : EqualFold(values[1], labels[j])

\* lines 139-154: the label sub-signal in "all" mode
LabelAllMatches(values, labels) ==
    \A i \in 1..Len(values) : \E j \in 1..Len(labels) : EqualFold(values[i], labels[j])

\* lines 155-164: the label sub-signal in "one" mode; the first pair in loop order
LabelOnePairs(values, labels) ==
    {ij \in (1..Len(values)) \X (1..Len(labels)) : EqualFold(values[ij[1]], labels[ij[2]])}

FirstPair(S) ==
    CHOOSE ij \in S : \A kl \in S : ij[1] < kl[1] \/ (ij[1] = kl[1] /\ ij[2] <= kl[2])

\* lines 139-164: the outcome of a configured label sub-signal
LabelSubSignal(s, labels) ==
    IF s.Label.Match = MATCH_ALL
    THEN IF LabelAllMatches(s.Label.Values, labels)
         THEN Ret(TRUE, <<"pull request has all labels">>, nil)
         ELSE Ret(FALSE, SIGNAL_NOT_MATCH, nil)
    ELSE LET pairs == LabelOnePairs(s.Label.Values, labels)
         IN  IF pairs # {}
             THEN Ret(TRUE, Sprintf("pull request matches the label %s",
                                    <<labels[FirstPair(pairs)[2]]>>), nil)
             ELSE Ret(FALSE, <<"pull request has no labels match">>, nil)

\* mutant: the configuration is looked at before Labels() is called
doesLabelSignalMatch_ConfigFirst(s, p, t) ==
    LET labels == Labels(p)
    IN  IF Len(s.Label.Values) = 0 THEN Ret(FALSE, SIGNAL_NOT_FOUND, nil)
        ELSE IF labels.err # nil
             THEN Ret(FALSE, <<"unable to list pull request labels">>, labels.err)
        ELSE LabelSubSignal(s, labels.val)

doesLabelSignalMatch(s, p, t) ==
    LET labels == Labels(p)
    IN  IF labels.err # nil THEN Ret(FALSE, <<"unable to list pull request labels">>, labels.err)
        ELSE IF Len(s.Label.Values) = 0 THEN Ret(FALSE, SIGNAL_NOT_FOUND, nil)
        ELSE LabelSubSignal(s, labels.val)

doesCommentSingalMatch(s, p, t) ==
    LET body == Body(p)
        comments == Comments(p)
        \* signal comments that equal the body or a comment, in loop order
        hits == {i \in 1..Len(s.Comments) :
                    \/ body = s.Comments[i]
                    \/ \E j \in 1..Len(comments.val) : comments.val[j] = s.Comments[i]}
    IN  IF comments.err # nil THEN Ret(FALSE, <<"unable to list pull request comments">>, comments.err)
        ELSE IF Len(s.Comments) = 0 THEN Ret(FALSE, SIGNAL_NOT_FOUND, nil)
        ELSE IF Len(comments.val) = 0 THEN Ret(FALSE, SIGNAL_NOT_MATCH, nil)
        ELSE IF hits # {}
             THEN LET c == s.Comments[Min(hits)]
                  IN  IF body = c
                      THEN Ret(TRUE, Sprintf("pull request body is a %s comment: %q", <<t, c>>), nil)
                      ELSE Ret(TRUE, Sprintf("pull request has a %s comment: %q", <<t, c>>), nil)
        ELSE Ret(FALSE, SIGNAL_NOT_MATCH, nil)

doesCommentSubstringSingalMatch(s, p, t) ==
    LET body == Body(p)
        comments == Comments(p)
        hits == {i \in 1..Len(s.CommentSubstrings) :
                    \/ Contains(body, s.CommentSubstrings[i])
                    \/ \E j \in 1..Len(comments.val) :
                           Contains(comments.val[j], s.CommentSubstrings[i])}
    IN  IF comments.err # nil THEN Ret(FALSE, <<"unable to list pull request comments">>, comments.err)
        ELSE IF Len(s.CommentSubstrings) = 0 THEN Ret(FALSE, SIGNAL_NOT_FOUND, nil)
        ELSE IF hits # {}
             THEN LET c == s.CommentSubstrings[Min(hits)]
                  IN  IF Contains(body, c)
                      THEN Ret(TRUE, Sprintf("pull request body matches a %s substring: %q", <<t, c>>), nil)
                      ELSE Ret(TRUE, Sprintf("pull request comment matches a %s substring: %q", <<t, c>>), nil)
        ELSE Ret(FALSE, SIGNAL_NOT_MATCH, nil)

doesPRSubstringSingalMatch(s, p, t) ==
    LET body == Body(p)
        hits == {i \in 1..Len(s.PRBodySubstrings) : Contains(body, s.PRBodySubstrings[i])}
    IN  IF Len(s.PRBodySubstrings) = 0 THEN Ret(FALSE, SIGNAL_NOT_FOUND, nil)
        ELSE IF hits # {}
             THEN Ret(TRUE, Sprintf("pull request body matches a %s substring: %q",
                                    <<t, s.PRBodySubstrings[Min(hits)]>>), nil)
        ELSE Ret(FALSE, SIGNAL_NOT_MATCH, nil)

\* line 247: the pattern is wrapped by Sprintf("^%s$", ...) and the error of
\* MatchString is discarded
BranchPatternMatches(signalBranch, targetBranch) ==
    MatchString(<<"^">> \o signalBranch \o <<"$">>, targetBranch).matched

doesTargetBranchSingalMatch(s, p, t) ==
    LET targetBranch == Branches(p)
        exact == {i \in 1..Len(s.Branches) : targetBranch = s.Branches[i]}
        pats == {i \in 1..Len(s.BranchPatterns) :
                    BranchPatternMatches(s.BranchPatterns[i], targetBranch)}
    IN  IF Len(s.Branches) = 0 /\ Len(s.BranchPatterns) = 0 THEN Ret(FALSE, SIGNAL_NOT_FOUND, nil)
        ELSE IF exact # {}
             THEN Ret(TRUE, Sprintf("pull request target is a %s branch: %q",
                                    <<t, s.Branches[Min(exact)]>>), nil)
        ELSE IF pats # {}
             THEN Ret(TRUE, Sprintf("pull request target branch (%q) matches pattern: %q",
                                    <<targetBranch, s.BranchPatterns[Min(pats)]>>), nil)
        ELSE Ret(FALSE, SIGNAL_NOT_MATCH, nil)

doesCreatorSingalMatch(s, p, t) ==
    LET creator == Creator(p)
    IN  IF Len(s.PRCreator) = 0 THEN Ret(FALSE, SIGNAL_NOT_FOUND, nil)
        ELSE IF \E i \in 1..Len(s.PRCreator) : creator = s.PRCreator[i]
             THEN Ret(TRUE, Sprintf("pull request matches a creator %s", <<creator>>), nil)
        ELSE Ret(FALSE, SIGNAL_NOT_MATCH, nil)

-----------------------------------------------------------------------------
(* Aggregation: Matches, matchesForOne, matchesForAll *)

Predicates ==
    <<"label", "comment", "commentSubstring", "prSubstring", "targetBranch", "creator">>

\* the predicate called by the k-th if statement of matchesForOne / matchesForAll
doesSignalMatch(k, s, p, t) ==
    CASE k = 1 -> doesLabelSignalMatch(s, p, t)
      [] k = 2 -> doesCommentSingalMatch(s, p, t)
      [] k = 3 -> doesCommentSubstringSingalMatch(s, p, t)
      [] k = 4 -> doesPRSubstringSingalMatch(s, p, t)
      [] k = 5 -> doesTargetBranchSingalMatch(s, p, t)
      [] k = 6 -> doesCreatorSingalMatch(s, p, t)

\* the accessors a predicate calls before it looks at the configuration
AccessorCalls(k) ==
    CASE k = 1 -> <<"Labels">>
      [] k = 2 -> <<"Body", "Comments">>
      [] k = 3 -> <<"Body", "Comments">>
      [] k = 4 -> <<"Body">>
      [] k = 5 -> <<"Branches">>
      [] k = 6 -> <<"Creator">>

Result(matched, reason, err) == [matched |-> matched, reason |-> reason, err |-> err]

\* mutant: matchesForOne stops at the first configured predicate
OneStops_Configured(r) == r.err # nil \/ r.reason # SIGNAL_NOT_FOUND

\* matchesForOne: "err != nil || match" and "return true, reason, err"
OneStops(r) == r.err # nil \/ r.match
OneReturn(r) == Result(TRUE, r.reason, r.err)
OneDefault(t) == Result(FALSE, Sprintf("pull request does not match the %s", <<t>>), nil)

\* mutant: matchesForAll stops only on the SIGNAL_NOT_MATCH sentinel
AllStops_Sentinel(r) == r.err # nil \/ (~r.match /\ r.reason = SIGNAL_NOT_MATCH)

\* matchesForAll: "err != nil || (!match && reason != SIGNAL_NOT_FOUND)" and
\* "return false, reason, err"
AllStops(r) == r.err # nil \/ (~r.match /\ r.reason # SIGNAL_NOT_FOUND)
AllReturn(r) == Result(FALSE, r.reason, r.err)
AllDefault(t) == Result(TRUE, Sprintf("pull request matches the %s", <<t>>), nil)

RECURSIVE matchesForOneFrom(_, _, _, _)
matchesForOneFrom(k, s, p, t) ==
    IF k > Len(Predicates) THEN OneDefault(t)
    ELSE LET r == doesSignalMatch(k, s, p, t)
         IN  IF OneStops(r) THEN OneReturn(r) ELSE matchesForOneFrom(k + 1, s, p, t)

RECURSIVE matchesForAllFrom(_, _, _, _)
matchesForAllFrom(k, s, p, t) ==
    IF k > Len(Predicates) THEN AllDefault(t)
    ELSE LET r == doesSignalMatch(k, s, p, t)
         IN  IF AllStops(r) THEN AllReturn(r) ELSE matchesForAllFrom(k + 1, s, p, t)

matchesForOne(s, p, t) == matchesForOneFrom(1, s, p, t)
matchesForAll(s, p, t) == matchesForAllFrom(1, s, p, t)

\* the function Matches dispatches to
Dispatch(s) == IF s.Match = MATCH_ALL THEN "matchesForAll" ELSE "matchesForOne"

Matches(s, p, t) ==
    IF Dispatch(s) = "matchesForAll" THEN matchesForAll(s, p, t) ELSE matchesForOne(s, p, t)

-----------------------------------------------------------------------------
(* One evaluation of Matches, one step per predicate call *)

NoResult == Result(FALSE, <<>>, nil)

\* control positions: the running function and the index of its next if statement
AtStart == <<"Matches", 0>>
AtDone == <<"returned", 0>>

\* Matches is entered and dispatches on s.Match
CallMatches ==
    /\ pc = AtStart
    /\ pc' = <<Dispatch(sig), 1>>
    /\ UNCHANGED <<sig, pr, tag, result, calls, evaluated>>

\* the k-th if statement of the running aggregation function
EvalPredicate(k) ==
    /\ pc \in {<<"matchesForOne", k>>, <<"matchesForAll", k>>}
    /\ LET fn == pc[1]
           r == doesSignalMatch(k, sig, pr, tag)
           stops == IF fn = "matchesForAll" THEN AllStops(r) ELSE OneStops(r)
       IN  /\ calls' = calls \o AccessorCalls(k)
           /\ evaluated' = Append(evaluated, [pred |-> Predicates[k], out |-> r])
           /\ IF stops
              THEN /\ result' = IF fn = "matchesForAll" THEN AllReturn(r) ELSE OneReturn(r)
                   /\ pc' = AtDone
              ELSE /\ result' = result
                   /\ pc' = <<fn, k + 1>>
    /\ UNCHANGED <<sig, pr, tag>>

EvalLabel == EvalPredicate(1)
EvalComment == EvalPredicate(2)
EvalCommentSubstring == EvalPredicate(3)
EvalPRSubstring == EvalPredicate(4)
EvalTargetBranch == EvalPredicate(5)
EvalCreator == EvalPredicate(6)

\* line 100: no predicate stopped matchesForOne
ReturnNoMatch ==
    /\ pc = <<"matchesForOne", Len(Predicates) + 1>>
    /\ result' = OneDefault(tag)
    /\ pc' = AtDone
    /\ UNCHANGED <<sig, pr, tag, calls, evaluated>>

\* line 124: no predicate stopped matchesForAll
ReturnAllMatch ==
    /\ pc = <<"matchesForAll", Len(Predicates) + 1>>
    /\ result' = AllDefault(tag)
    /\ pc' = AtDone
    /\ UNCHANGED <<sig, pr, tag, calls, evaluated>>

Next ==
    \/ CallMatches
    \/ EvalLabel
    \/ EvalComment
    \/ EvalCommentSubstring
    \/ EvalPRSubstring
    \/ EvalTargetBranch
    \/ EvalCreator
    \/ ReturnNoMatch
    \/ ReturnAllMatch

-----------------------------------------------------------------------------
(* Inputs *)

\* total number of configured values of a Signals
MaxValues == 2

Lists(U, n) == UNION {[1..k -> U] : k \in 0..n}

bug == <<"b", "u", "g">>
Bug == <<"B", "u", "g">>
BUG == <<"B", "U", "G">>
wip == <<"w", "i", "p">>
auto == <<"a", "u", "t", "o">>

Modes == {MATCH_ONE, MATCH_ALL}

\* the values of Signals.Match: the two modes and the zero value of the type
MatchValues == Modes \cup {""}
Tags == {"trigger", "ignore"}
Errors(e) == {nil, e}

LabelValueSet == {Bug, wip}
CommentSet == {<<"a", "b">>, <<"b", "a">>}
CommentSubstringSet == {<<"b">>, <<"b", "a">>}
PRBodySubstringSet == {<<"a">>, <<"b", "a">>}
BranchSet == {<<"m", "d">>, <<"m">>}
BranchPatternSet == {<<"m", ".">>, <<"d">>}
CreatorSet == {"alice", "bob"}

Signals(lm, lv, cs, co, bs, br, bp, cr, m) ==
    [Label |-> [Match |-> lm, Values |-> lv], CommentSubstrings |-> cs, Comments |-> co,
     PRBodySubstrings |-> bs, Branches |-> br, BranchPatterns |-> bp, PRCreator |-> cr,
     Match |-> m]

Context(body, comments, commentsErr, labels, labelsErr, target, creator) ==
    [body |-> body, comments |-> comments, commentsErr |-> commentsErr, labels |-> labels,
     labelsErr |-> labelsErr, target |-> target, creator |-> creator]

InitRun ==
    /\ pc = AtStart
    /\ result = NoResult
    /\ calls = <<>>
    /\ evaluated = <<>>

Init ==
    /\ \E lv \in Lists(LabelValueSet, MaxValues) :
       \E cs \in Lists(CommentSubstringSet, MaxValues - Len(lv)) :
       \E co \in Lists(CommentSet, MaxValues - Len(lv) - Len(cs)) :
       \E bs \in Lists(PRBodySubstringSet, MaxValues - Len(lv) - Len(cs) - Len(co)) :
       \E br \in Lists(BranchSet, MaxValues - Len(lv) - Len(cs) - Len(co) - Len(bs)) :
       \E bp \in Lists(BranchPatternSet,
                       MaxValues - Len(lv) - Len(cs) - Len(co) - Len(bs) - Len(br)) :
       \E cr \in Lists(CreatorSet,
                       MaxValues - Len(lv) - Len(cs) - Len(co) - Len(bs) - Len(br) - Len(bp)) :
       \E lm \in Modes : \E m \in MatchValues :
           sig = Signals(lm, lv, cs, co, bs, br, bp, cr, m)
    /\ \E comments \in {<<>>, << <<"b", "a">> >>} :
       \E ce \in Errors("comments unavailable") : \E le \in Errors("labels unavailable") :
           pr = Context(<<"a", "b">>, comments, ce, <<bug, auto>>, le, <<"m", "d">>, "alice")
    /\ tag \in Tags
    /\ InitRun

Spec == Init /\ [][Next]_vars

\* number of labels of the pull request
MaxLabels == 2

\* label values and labels that differ by case only, and some that do not match
InitLabel ==
    /\ \E lv \in Lists({bug, Bug, wip}, MaxValues) : \E lm \in Modes : \E m \in Modes :
           sig = Signals(lm, lv, <<>>, <<>>, <<>>, <<>>, <<>>, <<>>, m)
    /\ \E labels \in Lists({bug, BUG, auto}, MaxLabels) : \E le \in Errors("labels unavailable") :
           pr = Context(<<"a", "b">>, <<>>, nil, labels, le, <<"m", "d">>, "alice")
    /\ tag = "trigger"
    /\ InitRun

SpecLabel == InitLabel /\ [][Next]_vars

\* number of characters of a branch pattern
MaxPatternLen == 3

PatternChars == {"m", "d", "|", "*", "."}

\* the patterns; those that begin with a repetition operator are left out
PatternSet == {x \in Lists(PatternChars, MaxPatternLen) : x = <<>> \/ x[1] # "*"}

TargetSet == {<<"m">>, <<"m", "d">>, <<"d", "m">>, <<"m", "m", "d">>}

InitBranch ==
    /\ \E bp \in Lists(PatternSet, 1) : \E br \in Lists({<<"m">>}, 1) : \E m \in Modes :
           sig = Signals(MATCH_ONE, <<>>, <<>>, <<>>, <<>>, br, bp, <<>>, m)
    /\ \E target \in TargetSet :
           pr = Context(<<"a", "b">>, <<>>, nil, <<>>, nil, target, "alice")
    /\ tag = "trigger"
    /\ InitRun

SpecBranch == InitBranch /\ [][Next]_vars

\* the step model and the function Matches agree
StepsAgree == pc = AtDone => result = Matches(sig, pr, tag)

-----------------------------------------------------------------------------
(* Vocabulary of the properties *)

Returned == pc = AtDone
AnyMode == Dispatch(sig) = "matchesForOne"
AllMode == Dispatch(sig) = "matchesForAll"
AccessorsSucceed == pr.labelsErr = nil /\ pr.commentsErr = nil

\* the names of the predicates evaluated so far, in order
EvaluatedNames == [i \in 1..Len(evaluated) |-> evaluated[i].pred]

\* the outcome the k-th predicate reports on the current inputs
Outcome(k) == doesSignalMatch(k, sig, pr, tag)

\* a predicate is configured when one of its value lists is non-empty
Configured(k, s) ==
    CASE k = 1 -> s.Label.Values # <<>>
      [] k = 2 -> s.Comments # <<>>
      [] k = 3 -> s.CommentSubstrings # <<>>
      [] k = 4 -> s.PRBodySubstrings # <<>>
      [] k = 5 -> s.Branches # <<>> \/ s.BranchPatterns # <<>>
      [] k = 6 -> s.PRCreator # <<>>

Range(f) == {f[i] : i \in DOMAIN f}

-----------------------------------------------------------------------------
(* C1 *)

\* C1: when an accessor call made during Matches fails, Matches returns
\* matched = false with the descriptive reason and the underlying error, in
\* both modes; it never returns matched = true with a non-nil error.
C1_ErrorReturnsNotMatched ==
    Returned =>
        /\ ("Labels" \in Range(calls) /\ pr.labelsErr # nil) =>
               result = Result(FALSE, <<"unable to list pull request labels">>, pr.labelsErr)
        /\ ("Comments" \in Range(calls) /\ pr.commentsErr # nil) =>
               result = Result(FALSE, <<"unable to list pull request comments">>, pr.commentsErr)
        /\ result.err # nil => ~result.matched

-----------------------------------------------------------------------------
(* C2 *)

\* C2: in ANY mode with succeeding accessors the predicates run in the fixed
\* order and Matches returns (true, r, nil) for the reason r of the first
\* predicate that reports MATCHED, no later predicate being evaluated; when no
\* predicate matches it returns (false, "pull request does not match the
\* <tag>", nil) after evaluating all six.
C2_AnyFirstMatchWins ==
    (AnyMode /\ AccessorsSucceed) =>
        /\ EvaluatedNames = SubSeq(Predicates, 1, Len(evaluated))
        /\ Returned =>
               LET M == {k \in 1..6 : Outcome(k).match}
               IN  IF M # {}
                   THEN /\ result = Result(TRUE, Outcome(Min(M)).reason, nil)
                        /\ Len(evaluated) = Min(M)
                   ELSE /\ result = Result(FALSE, <<"pull request does not match the %s", tag>>, nil)
                        /\ Len(evaluated) = 6

\* a later predicate matched after configured earlier ones did not
C2_Witness ==
    /\ Returned /\ AnyMode /\ AccessorsSucceed
    /\ result.matched
    /\ Len(evaluated) >= 5
    /\ \E k \in 1..4 : Configured(k, sig)

-----------------------------------------------------------------------------
(* C3 *)

\* C3: in ALL mode with succeeding accessors Matches returns (true, "pull
\* request matches the <tag>", nil) iff each predicate reports MATCHED or
\* NOT_CONFIGURED; otherwise (false, r, nil) for the reason r of the first
\* configured predicate that did not match, the label predicate in ANY
\* sub-mode included.
C3_AllNeedsEveryConfigured ==
    (Returned /\ AllMode /\ AccessorsSucceed) =>
        LET F == {k \in 1..6 : Configured(k, sig) /\ ~Outcome(k).match}
        IN  IF F = {}
            THEN result = Result(TRUE, <<"pull request matches the %s", tag>>, nil)
            ELSE /\ result = Result(FALSE, Outcome(Min(F)).reason, nil)
                 /\ EvaluatedNames = SubSeq(Predicates, 1, Min(F))

\* the label predicate in ANY sub-mode fails the aggregate with its own reason
C3_Witness ==
    /\ Returned /\ AllMode /\ AccessorsSucceed
    /\ sig.Label.Match = MATCH_ONE
    /\ result = Result(FALSE, <<"pull request has no labels match">>, nil)

-----------------------------------------------------------------------------
(* C5 *)

\* C5: the exact-comment predicate reports MATCHED whenever the body equals
\* a configured comment, also when Comments() returns no comment.
C5_BodyEqualMatches ==
    \A i \in 1..Len(evaluated) :
        (evaluated[i].pred = "comment" /\ pr.commentsErr = nil
            /\ pr.body \in Range(sig.Comments)) => evaluated[i].out.match

-----------------------------------------------------------------------------
(* C7 *)

NoValues(s) ==
    /\ s.Label.Values = <<>> /\ s.CommentSubstrings = <<>> /\ s.Comments = <<>>
    /\ s.PRBodySubstrings = <<>> /\ s.Branches = <<>> /\ s.BranchPatterns = <<>>
    /\ s.PRCreator = <<>>

\* C7: Enabled() is false exactly when all seven value lists are empty; for
\* such a Signals and succeeding accessors Matches returns (true, "pull
\* request matches the <tag>", nil) in ALL mode and matched = false in ANY
\* mode.
C7_DisabledIsVacuous ==
    /\ ~Enabled(sig) <=> NoValues(sig)
    /\ (Returned /\ ~Enabled(sig) /\ AccessorsSucceed) =>
           IF AllMode
           THEN result = Result(TRUE, <<"pull request matches the %s", tag>>, nil)
           ELSE ~result.matched

C7_Witness ==
    /\ Returned /\ AllMode /\ AccessorsSucceed
    /\ ~Enabled(sig)
    /\ result.matched
    /\ Len(evaluated) = 6

-----------------------------------------------------------------------------
(* C10 *)

Count(seq, x) == Cardinality({i \in 1..Len(seq) : seq[i] = x})

\* the label predicate ends the evaluation before the comment predicates
LabelShortCircuits ==
    IF AllMode THEN Configured(1, sig) /\ ~Outcome(1).match ELSE Outcome(1).match

\* C10: Labels() is called on every Matches call and its failure is returned
\* whatever is configured; both comment predicates call Comments() when
\* reached, so its failure is returned even with no comments and no comment
\* substrings configured, unless the label predicate ended the evaluation
\* first, and then Comments() is never called.
C10_AccessorsBeforeConfiguration ==
    /\ Len(calls) >= 1 => calls[1] = "Labels"
    /\ Returned => "Labels" \in Range(calls)
    /\ (Returned /\ pr.labelsErr # nil) => result.err = pr.labelsErr
    /\ Count(calls, "Comments")
           = Count(EvaluatedNames, "comment") + Count(EvaluatedNames, "commentSubstring")
    /\ (Returned /\ pr.labelsErr = nil /\ pr.commentsErr # nil) =>
           IF LabelShortCircuits
           THEN "Comments" \notin Range(calls) /\ result.err = nil
           ELSE result.err = pr.commentsErr

C10_Witness ==
    /\ Returned
    /\ pr.labelsErr = nil /\ pr.commentsErr # nil
    /\ sig.Comments = <<>> /\ sig.CommentSubstrings = <<>>
    /\ Enabled(sig)
    /\ result.err = pr.commentsErr

-----------------------------------------------------------------------------
(* C4 and C6: one value removed from, or added to, one of the value lists *)

\* the seven value lists, numbered
ValueLists == 1..7

GetList(s, n) ==
    CASE n = 1 -> s.Label.Values
      [] n = 2 -> s.CommentSubstrings
      [] n = 3 -> s.Comments
      [] n = 4 -> s.PRBodySubstrings
      [] n = 5 -> s.Branches
      [] n = 6 -> s.BranchPatterns
      [] n = 7 -> s.PRCreator

SetList(s, n, l) ==
    CASE n = 1 -> [s EXCEPT !.Label.Values = l]
      [] n = 2 -> [s EXCEPT !.CommentSubstrings = l]
      [] n = 3 -> [s EXCEPT !.Comments = l]
      [] n = 4 -> [s EXCEPT !.PRBodySubstrings = l]
      [] n = 5 -> [s EXCEPT !.Branches = l]
      [] n = 6 -> [s EXCEPT !.BranchPatterns = l]
      [] n = 7 -> [s EXCEPT !.PRCreator = l]

\* the predicate that reads the n-th list
PredicateOf(n) ==
    CASE n = 1 -> 1 [] n = 2 -> 3 [] n = 3 -> 2 [] n = 4 -> 4
      [] n = 5 -> 5 [] n = 6 -> 5 [] n = 7 -> 6

\* the values a list may hold
ValueSet(n) ==
    CASE n = 1 -> LabelValueSet \cup {bug, BUG, auto}
      [] n = 2 -> CommentSubstringSet
      [] n = 3 -> CommentSet
      [] n = 4 -> PRBodySubstringSet
      [] n = 5 -> BranchSet
      [] n = 6 -> BranchPatternSet \cup {<<"m", "|", "d">>}
      [] n = 7 -> CreatorSet

\* the snapshot p satisfies the value v of the n-th list
ValueMatches(n, v, p) ==
    CASE n = 1 -> \E j \in 1..Len(p.labels) : EqualFold(v, p.labels[j])
      [] n = 2 -> Contains(p.body, v) \/ \E j \in 1..Len(p.comments) : Contains(p.comments[j], v)
      [] n = 3 -> p.body = v \/ \E j \in 1..Len(p.comments) : p.comments[j] = v
      [] n = 4 -> Contains(p.body, v)
      [] n = 5 -> p.target = v
      [] n = 6 -> BranchPatternMatches(v, p.target)
      [] n = 7 -> p.creator = v

RemoveAt(l, i) == SubSeq(l, 1, i - 1) \o SubSeq(l, i + 1, Len(l))
InsertAt(l, i, v) == SubSeq(l, 1, i) \o <<v>> \o SubSeq(l, i + 1, Len(l))

Removed(s, n, i) == SetList(s, n, RemoveAt(GetList(s, n), i))
Added(s, n, i, v) == SetList(s, n, InsertAt(GetList(s, n), i, v))

\* C4 as stated: in ALL mode, removing one configured value from any list
\* never turns matched = true into matched = false.
C4_AllMonotonicUnderRemoval ==
    (Returned /\ AllMode /\ AccessorsSucceed /\ result.matched) =>
        \A n \in ValueLists : \A i \in 1..Len(GetList(sig, n)) :
            Matches(Removed(sig, n, i), pr, tag).matched

\* C4 amended: in ALL mode, matched = true is kept when the value is removed
\* from the label values in sub-mode ALL, when the removal leaves the
\* predicate of that list with no configured value, or when the snapshot does
\* not satisfy the removed value.
C4_AllMonotonicUnderHarmlessRemoval ==
    (Returned /\ AllMode /\ AccessorsSucceed /\ result.matched) =>
        \A n \in ValueLists : \A i \in 1..Len(GetList(sig, n)) :
            (\/ n = 1 /\ sig.Label.Match = MATCH_ALL
             \/ ~Configured(PredicateOf(n), Removed(sig, n, i))
             \/ ~ValueMatches(n, GetList(sig, n)[i], pr))
            => Matches(Removed(sig, n, i), pr, tag).matched

\* a matching ALL-mode Signals whose label sub-signal in ALL mode has a value
\* to spare
C4_Witness ==
    /\ Returned /\ AllMode /\ AccessorsSucceed /\ result.matched
    /\ sig.Label.Match = MATCH_ALL
    /\ Len(sig.Label.Values) >= 2

\* C6: in ANY mode, adding one value that the snapshot satisfies to any list
\* never turns matched = true into matched = false.
C6_AnyMonotonicUnderAddition ==
    (Returned /\ AnyMode /\ AccessorsSucceed /\ result.matched) =>
        \A n \in ValueLists : \A v \in {x \in ValueSet(n) : ValueMatches(n, x, pr)} :
            \A i \in 0..Len(GetList(sig, n)) :
                Matches(Added(sig, n, i, v), pr, tag).matched

\* a Signals that matches through its label sub-signal in ALL mode only
C6_Witness ==
    /\ Returned /\ AnyMode /\ AccessorsSucceed /\ result.matched
    /\ sig.Label.Match = MATCH_ALL
    /\ Len(evaluated) = 1
    /\ \A k \in 2..6 : ~Outcome(k).match

-----------------------------------------------------------------------------
(* C8 *)

\* ASCII lower case of the letters of the label names
ToLower(s) ==
    [i \in 1..Len(s) |->
        CASE s[i] = "B" -> "b" [] s[i] = "U" -> "u" [] s[i] = "G" -> "g" [] OTHER -> s[i]]

\* some label of the pull request equals v up to case
Carried(v, p) == \E j \in 1..Len(p.labels) : ToLower(v) = ToLower(p.labels[j])

\* C8: given a successful Labels() call, the label predicate reports
\* NOT_CONFIGURED with no configured value; in sub-mode ALL it matches iff
\* every configured value equals some label up to case, in sub-mode ANY iff
\* some configured value does, whatever the mode of the Signals.
C8_LabelPredicate ==
    \A i \in 1..Len(evaluated) :
        (evaluated[i].pred = "label" /\ pr.labelsErr = nil) =>
            LET out == evaluated[i].out
                values == sig.Label.Values
            IN  /\ out.err = nil
                /\ IF values = <<>>
                   THEN ~out.match /\ out.reason = SIGNAL_NOT_FOUND
                   ELSE /\ out.reason # SIGNAL_NOT_FOUND
                        /\ IF sig.Label.Match = MATCH_ALL
                           THEN out.match <=> \A v \in Range(values) : Carried(v, pr)
                           ELSE out.match <=> \E v \in Range(values) : Carried(v, pr)

\* "Bug" is configured, the pull request carries it in another case only, and
\* the sub-signal in ALL mode matches under a Signals in ANY mode
C8_Witness ==
    /\ Len(evaluated) >= 1
    /\ pr.labelsErr = nil
    /\ sig.Match = MATCH_ONE /\ sig.Label.Match = MATCH_ALL
    /\ Bug \in Range(sig.Label.Values) /\ Bug \notin Range(pr.labels)
    /\ Len(sig.Label.Values) >= 2
    /\ evaluated[1].out.match

-----------------------------------------------------------------------------
(* C9 *)

\* the pattern compiles and, as a regular expression, matches all of t
FullMatch(pattern, t) ==
    /\ Compiles(pattern)
    /\ \E alt \in Alternatives(pattern) : Len(t) \in MatchConcat(alt, t, {0})

\* C9: the target-branch predicate reports MATCHED through a branch pattern
\* only when that pattern matches the entire target branch name, patterns
\* with a top-level alternation included; a malformed pattern does not match
\* and does not abort the evaluation.
C9_PatternMatchesWholeName ==
    \A i \in 1..Len(evaluated) :
        evaluated[i].pred = "targetBranch" =>
            LET out == evaluated[i].out
            IN  /\ out.err = nil
                /\ (out.match /\ pr.target \notin Range(sig.Branches)) =>
                       \E j \in 1..Len(sig.BranchPatterns) :
                           FullMatch(sig.BranchPatterns[j], pr.target)

\* the same for patterns without alternation
NoBarPatternMatchesWholeName ==
    (\A j \in 1..Len(sig.BranchPatterns) : "|" \notin Range(sig.BranchPatterns[j]))
        => C9_PatternMatchesWholeName

====
